---- MODULE Spec2Model ----
(***************************************************************************)
(* tq: extract the value at a dotted key path of a TOML document and       *)
(* print it for a shell (src/main.rs).                                     *)
(*                                                                         *)
(* Text is a sequence of one-character strings.  The two control           *)
(* characters of interest that the escape table can produce are written    *)
(* "BEL" (U+0007) and "\n" (U+000A); "BQ" stands for the backquote.        *)
(***************************************************************************)
EXTENDS Integers, Sequences, FiniteSets, TLC

VARIABLES doc, pattern, preserve_order, pc, path, value, err, out, panic

vars == <<doc, pattern, preserve_order, pc, path, value, err, out, panic>>

(***************************************************************************)
(* Bounds of the model.                                                    *)
(***************************************************************************)
MaxPatLen == 5
MaxStrLen == 3
MaxArrLen == 3

\* all sequences over S of length at most n
SeqUpTo(S, n) == UNION {[1..k -> S] : k \in 0..n}

(***************************************************************************)
(* toml::Value                                                             *)
(***************************************************************************)
VString(s) == [tag |-> "String", s |-> s]
VInteger(i) == [tag |-> "Integer", i |-> i]
VBoolean(b) == [tag |-> "Boolean", b |-> b]
\* a finite float is kept in tenths; special is "none", "nan", "inf" or "-inf"
VFloat(special, tenths) == [tag |-> "Float", special |-> special, tenths |-> tenths]
\* date, time: <<>> when absent, else <<y, m, d>> / <<h, m, s>>; offset: "" or "Z"
VDatetime(date, time, offset) ==
    [tag |-> "Datetime", date |-> date, time |-> time, offset |-> offset]
VArray(a) == [tag |-> "Array", arr |-> a]
\* a table is the sequence of its entries in document order, keys unique
VTable(t) == [tag |-> "Table", tbl |-> t]
Entry(k, v) == [key |-> k, value |-> v]

NoValue == [tag |-> "None"]

(***************************************************************************)
(* ExportSpec::from_str: s.split('.') collected into a Vec<String>         *)
(***************************************************************************)
\* mutant: the segment after the last '.' is dropped when it is empty
RECURSIVE SplitFrom_DropsEmptyTail(_, _, _, _)
SplitFrom_DropsEmptyTail(s, i, cur, acc) ==
    IF i > Len(s) THEN (IF cur = <<>> THEN acc ELSE Append(acc, cur))
    ELSE IF s[i] = "." THEN SplitFrom_DropsEmptyTail(s, i + 1, <<>>, Append(acc, cur))
    ELSE SplitFrom_DropsEmptyTail(s, i + 1, Append(cur, s[i]), acc)

RECURSIVE SplitFrom(_, _, _, _)
SplitFrom(s, i, cur, acc) ==
    IF i > Len(s) THEN Append(acc, cur)
    ELSE IF s[i] = "." THEN SplitFrom(s, i + 1, <<>>, Append(acc, cur))
    ELSE SplitFrom(s, i + 1, Append(cur, s[i]), acc)

from_str(s) == SplitFrom(s, 1, <<>>, <<>>)

\* [&str]::join(".")
RECURSIVE JoinFrom(_, _, _)
JoinFrom(segs, i, acc) ==
    IF i > Len(segs) THEN acc
    ELSE JoinFrom(segs, i + 1, (IF i = 1 THEN acc ELSE Append(acc, ".")) \o segs[i])

JoinDots(segs) == JoinFrom(segs, 1, <<>>)

(***************************************************************************)
(* toml::Value::get with a &str index: a lookup in a Table, None for       *)
(* every other variant.                                                    *)
(***************************************************************************)
Get(obj, key) ==
    IF obj.tag = "Table" /\ \E i \in 1..Len(obj.tbl) : obj.tbl[i].key = key
    THEN obj.tbl[CHOOSE i \in 1..Len(obj.tbl) : obj.tbl[i].key = key].value
    ELSE NoValue

(***************************************************************************)
(* get_path: the loop over the parts; the first miss returns NoSuchKey     *)
(* with the parts joined by '.'.                                           *)
(***************************************************************************)
\* mutant: the loop ends one part early
RECURSIVE GetPathFrom_SkipsLast(_, _, _)
GetPathFrom_SkipsLast(obj, p, i) ==
    IF i >= Len(p) THEN [ok |-> TRUE, value |-> obj, key |-> <<>>]
    ELSE LET next == Get(obj, p[i])
         IN  IF next.tag = "None"
             THEN [ok |-> FALSE, value |-> NoValue, key |-> JoinDots(p)]
             ELSE GetPathFrom_SkipsLast(next, p, i + 1)

\* mutant: the error names the parts up to the failing one only
RECURSIVE GetPathFrom_PrefixKey(_, _, _)
GetPathFrom_PrefixKey(obj, p, i) ==
    IF i > Len(p) THEN [ok |-> TRUE, value |-> obj, key |-> <<>>]
    ELSE LET next == Get(obj, p[i])
         IN  IF next.tag = "None"
             THEN [ok |-> FALSE, value |-> NoValue, key |-> JoinDots(SubSeq(p, 1, i))]
             ELSE GetPathFrom_PrefixKey(next, p, i + 1)

\* mutant: a part that misses on a non-empty array goes on in its first element
RECURSIVE GetPathFrom_EntersArrays(_, _, _)
GetPathFrom_EntersArrays(obj, p, i) ==
    IF i > Len(p) THEN [ok |-> TRUE, value |-> obj, key |-> <<>>]
    ELSE LET next == IF obj.tag = "Array" /\ obj.arr # <<>> THEN obj.arr[1] ELSE Get(obj, p[i])
         IN  IF next.tag = "None"
             THEN [ok |-> FALSE, value |-> NoValue, key |-> JoinDots(p)]
             ELSE GetPathFrom_EntersArrays(next, p, i + 1)

RECURSIVE GetPathFrom(_, _, _)
GetPathFrom(obj, p, i) ==
    IF i > Len(p) THEN [ok |-> TRUE, value |-> obj, key |-> <<>>]
    ELSE LET next == Get(obj, p[i])
         IN  IF next.tag = "None"
             THEN [ok |-> FALSE, value |-> NoValue, key |-> JoinDots(p)]
             ELSE GetPathFrom(next, p, i + 1)

get_path(obj, p) == GetPathFrom(obj, p, 1)

(***************************************************************************)
(* is_atomic                                                               *)
(***************************************************************************)
is_atomic(obj) == obj.tag \in {"String", "Boolean", "Integer", "Datetime", "Float"}

(***************************************************************************)
(* snailquote::unescape as main.rs calls it: quote characters open and     *)
(* close quoted runs and are dropped, a backslash is an escape only inside *)
(* double quotes, an escape outside the table (or a backslash at the end)  *)
(* is an Err; the end of the text inside an open quote is not an error.    *)
(* \u{...} needs the characters u, { and }, which StrChars leaves out.     *)
(***************************************************************************)
EscapeTable ==
    [c \in {"a", "b", "v", "f", "n", "r", "t", "e", "E", "\\", "'", "\"", "$", "BQ", " "} |->
        CASE c = "a" -> "BEL"
          [] c = "b" -> "BS"
          [] c = "v" -> "VT"
          [] c = "f" -> "FF"
          [] c = "n" -> "\n"
          [] c = "r" -> "\r"
          [] c = "t" -> "\t"
          [] c \in {"e", "E"} -> "ESC"
          [] OTHER -> c]

RECURSIVE UnescapeFrom(_, _, _, _, _)
UnescapeFrom(s, i, in_single_quote, in_double_quote, res) ==
    IF i > Len(s) THEN [ok |-> TRUE, s |-> res]
    ELSE LET c == s[i] IN
         IF in_single_quote
         THEN IF c = "'" THEN UnescapeFrom(s, i + 1, FALSE, in_double_quote, res)
              ELSE UnescapeFrom(s, i + 1, TRUE, in_double_quote, Append(res, c))
         ELSE IF in_double_quote
         THEN IF c = "\"" THEN UnescapeFrom(s, i + 1, FALSE, FALSE, res)
              ELSE IF c = "\\"
              THEN IF i + 1 > Len(s) THEN [ok |-> FALSE, s |-> <<>>]
                   ELSE IF s[i + 1] \in DOMAIN EscapeTable
                   THEN UnescapeFrom(s, i + 2, FALSE, TRUE,
                                     Append(res, EscapeTable[s[i + 1]]))
                   ELSE [ok |-> FALSE, s |-> <<>>]
              ELSE UnescapeFrom(s, i + 1, FALSE, TRUE, Append(res, c))
         ELSE IF c = "'" THEN UnescapeFrom(s, i + 1, TRUE, FALSE, res)
         ELSE IF c = "\"" THEN UnescapeFrom(s, i + 1, FALSE, TRUE, res)
         ELSE UnescapeFrom(s, i + 1, FALSE, FALSE, Append(res, c))

unescape(s) == UnescapeFrom(s, 1, FALSE, FALSE, <<>>)

(***************************************************************************)
(* Display of the scalar payloads ({i}, {b}, {fl}, {dt})                   *)
(***************************************************************************)
Digit(d) == <<"0", "1", "2", "3", "4", "5", "6", "7", "8", "9">>[d + 1]

RECURSIVE NatText(_)
NatText(n) == IF n < 10 THEN <<Digit(n)>> ELSE Append(NatText(n \div 10), Digit(n % 10))

IntText(i) == IF i < 0 THEN <<"-">> \o NatText(0 - i) ELSE NatText(i)

BoolText(b) == IF b THEN <<"t", "r", "u", "e">> ELSE <<"f", "a", "l", "s", "e">>

FloatText(fl) ==
    CASE fl.special = "nan" -> <<"N", "a", "N">>
      [] fl.special = "inf" -> <<"i", "n", "f">>
      [] fl.special = "-inf" -> <<"-", "i", "n", "f">>
      [] OTHER ->
           LET m == IF fl.tenths < 0 THEN 0 - fl.tenths ELSE fl.tenths
           IN  (IF fl.tenths < 0 THEN <<"-">> ELSE <<>>)
               \o NatText(m \div 10)
               \o (IF m % 10 = 0 THEN <<>> ELSE <<".", Digit(m % 10)>>)

\* {:0w} of a small natural
RECURSIVE Pad(_, _)
Pad(n, w) == IF w = 0 THEN <<>> ELSE Append(Pad(n \div 10, w - 1), Digit(n % 10))

DatetimeText(dt) ==
    (IF dt.date = <<>> THEN <<>>
     ELSE Pad(dt.date[1], 4) \o <<"-">> \o Pad(dt.date[2], 2) \o <<"-">> \o Pad(dt.date[3], 2))
    \o (IF dt.time = <<>> THEN <<>>
        ELSE (IF dt.date = <<>> THEN <<>> ELSE <<"T">>)
             \o Pad(dt.time[1], 2) \o <<":">> \o Pad(dt.time[2], 2) \o <<":">>
             \o Pad(dt.time[3], 2))
    \o (IF dt.offset = "" THEN <<>> ELSE <<dt.offset>>)

(***************************************************************************)
(* write_atom: appends the atom's text to what the formatter holds (f);    *)
(* the unwrap of an Err and the unreachable!() arm are panics, which leave *)
(* what was written before them.                                           *)
(***************************************************************************)
Written(f, text) == [panic |-> "none", text |-> f \o text]
Panicked(f, why) == [panic |-> why, text |-> f]

\* mutant: a string is always wrapped in single quotes
write_atom_AlwaysQuotes(f, obj) ==
    CASE obj.tag = "String" ->
           LET u == unescape(obj.s)
           IN  IF u.ok THEN Written(f, <<"'">> \o u.s \o <<"'">>) ELSE Panicked(f, "unwrap")
      [] obj.tag = "Integer" -> Written(f, IntText(obj.i))
      [] obj.tag = "Boolean" -> Written(f, BoolText(obj.b))
      [] obj.tag = "Float" -> Written(f, FloatText(obj))
      [] obj.tag = "Datetime" -> Written(f, DatetimeText(obj))
      [] OTHER -> Panicked(f, "unreachable")

write_atom(f, obj) ==
    CASE obj.tag = "String" ->
           LET u == unescape(obj.s)
           IN  IF u.ok THEN Written(f, u.s) ELSE Panicked(f, "unwrap")
      [] obj.tag = "Integer" -> Written(f, IntText(obj.i))
      [] obj.tag = "Boolean" -> Written(f, BoolText(obj.b))
      [] obj.tag = "Float" -> Written(f, FloatText(obj))
      [] obj.tag = "Datetime" -> Written(f, DatetimeText(obj))
      [] OTHER -> Panicked(f, "unreachable")

(***************************************************************************)
(* toml::map::Map::iter: the entries in document order when the toml crate *)
(* is built with preserve_order (IndexMap), in ascending key order         *)
(* otherwise (BTreeMap<String, Value>, bytewise comparison of the keys).   *)
(***************************************************************************)
CharCode(c) ==
    CASE c = "BEL" -> 7
      [] c = "\n" -> 10
      [] c = " " -> 32
      [] c = "\"" -> 34
      [] c = "'" -> 39
      [] c = "." -> 46
      [] c = "0" -> 48
      [] c = "1" -> 49
      [] c = "\\" -> 92
      [] c = "_" -> 95
      [] c = "a" -> 97
      [] c = "b" -> 98
      [] c = "c" -> 99
      [] c = "n" -> 110
      [] OTHER -> 127

\* s < t as Rust orders str
RECURSIVE StrLess(_, _)
StrLess(s, t) ==
    IF t = <<>> THEN FALSE
    ELSE IF s = <<>> THEN TRUE
    ELSE IF CharCode(Head(s)) # CharCode(Head(t)) THEN CharCode(Head(s)) < CharCode(Head(t))
    ELSE StrLess(Tail(s), Tail(t))

\* the entries of tbl in ascending key order (keys are unique)
KeyOrder(tbl) ==
    [i \in 1..Len(tbl) |->
        tbl[CHOOSE j \in 1..Len(tbl) :
                Cardinality({k \in 1..Len(tbl) : StrLess(tbl[k].key, tbl[j].key)}) = i - 1]]

iter(tbl, preserve) == IF preserve THEN tbl ELSE KeyOrder(tbl)

(***************************************************************************)
(* <FmtBash as Display>::fmt                                               *)
(***************************************************************************)
RECURSIVE FmtArray(_, _, _, _)
FmtArray(arr, i, had_one, f) ==
    IF i > Len(arr) THEN Written(f, <<>>)
    ELSE IF ~is_atomic(arr[i]) THEN FmtArray(arr, i + 1, had_one, f)
    ELSE LET w == write_atom(IF had_one THEN Append(f, " ") ELSE f, arr[i])
         IN  IF w.panic # "none" THEN w ELSE FmtArray(arr, i + 1, TRUE, w.text)

RECURSIVE FmtTable(_, _, _, _)
FmtTable(ents, i, had_one, f) ==
    IF i > Len(ents) THEN Written(f, <<>>)
    ELSE IF ~is_atomic(ents[i].value) THEN FmtTable(ents, i + 1, had_one, f)
    ELSE LET f1 == IF had_one THEN Append(f, " ") ELSE f
             k == unescape(ents[i].key)
         IN  IF ~k.ok THEN Panicked(f1, "unwrap")
             ELSE LET w == write_atom(f1 \o <<"[">> \o k.s \o <<"]", "=">>, ents[i].value)
                  IN  IF w.panic # "none" THEN w ELSE FmtTable(ents, i + 1, TRUE, w.text)

\* mutant: no arm of its own for Integer
fmt_IntegerAsAtom(v, preserve) ==
    CASE v.tag = "Array" -> FmtArray(v.arr, 1, FALSE, <<>>)
      [] v.tag = "Table" -> FmtTable(iter(v.tbl, preserve), 1, FALSE, <<>>)
      [] OTHER -> write_atom(<<>>, v)

fmt(v, preserve) ==
    CASE v.tag = "Array" -> FmtArray(v.arr, 1, FALSE, <<>>)
      [] v.tag = "Table" -> FmtTable(iter(v.tbl, preserve), 1, FALSE, <<>>)
      [] v.tag = "Integer" -> Written(<<>>, Append(IntText(v.i), "\n"))
      [] OTHER -> write_atom(<<>>, v)

(***************************************************************************)
(* The inputs: a parsed document (its root is a table), the pattern given  *)
(* on the command line, and how the toml crate was built.                  *)
(***************************************************************************)
PathChars == {"a", "b", "c", "0", "."}
Patterns == SeqUpTo(PathChars, MaxPatLen)

Leaves == {VInteger(1), VArray(<<VInteger(1)>>)}
Inner2 ==
    {VTable(<<>>)}
    \cup {VTable(<<Entry(k, l)>>) : k \in {<<"c">>, <<"0">>}, l \in Leaves}
Inner1 ==
    {VTable(<<>>)} \cup {VTable(<<Entry(<<"b">>, v)>>) : v \in Inner2 \cup Leaves}
UnderEmpty == {VInteger(1), VTable(<<Entry(<<>>, VInteger(2))>>)}
PathDocs ==
    {VTable(<<>>)}
    \cup {VTable(<<Entry(<<"a">>, v)>>) : v \in Inner1 \cup Leaves}
    \cup {VTable(<<Entry(<<>>, e), Entry(<<"a">>, v)>>) : e \in UnderEmpty, v \in Leaves}

StrChars == {"a", "n", "_", "1", "'", "\"", "\\", " "}
Strs == SeqUpTo(StrChars, MaxStrLen)
Ints == {0 - 1, 0, 1, 2, 9, 42}
Floats ==
    {VFloat("none", t) : t \in {0 - 5, 0, 15, 20}}
    \cup {VFloat(sp, 0) : sp \in {"nan", "inf", "-inf"}}
Datetimes ==
    {VDatetime(<<1979, 5, 27>>, <<>>, ""), VDatetime(<<>>, <<7, 32, 0>>, ""),
     VDatetime(<<1979, 5, 27>>, <<7, 32, 0>>, "Z")}
Atoms ==
    {VString(s) : s \in Strs} \cup {VInteger(i) : i \in Ints}
    \cup {VBoolean(b) : b \in BOOLEAN} \cup Floats \cup Datetimes

\* a double quote followed by a backslash: unescape returns Err for it
BadStr == <<"\"", "\\">>
SmallElems ==
    {VInteger(1), VInteger(2), VString(<<"a">>), VString(<<"a", " ", "a">>), VString(BadStr),
     VTable(<<>>), VArray(<<VInteger(9)>>)}
SmallKeys == {<<"a">>, <<"b">>, <<"_", "1">>}
Arrays ==
    {VArray(a) : a \in SeqUpTo(SmallElems, MaxArrLen)}
    \cup {VArray(<<VString(s)>>) : s \in Strs}
    \cup {VArray(<<VInteger(1), VString(s)>>) : s \in Strs}
    \cup {VArray(<<VString(s), VTable(<<>>), VBoolean(TRUE)>>) : s \in Strs}
SmallEntries == {Entry(k, v) : k \in SmallKeys, v \in SmallElems \ {VString(<<"a", " ", "a">>)}}
Tables ==
    {VTable(t) : t \in {u \in SeqUpTo(SmallEntries, MaxArrLen) :
                           \A i, j \in 1..Len(u) : u[i].key = u[j].key => i = j}}
    \cup {VTable(<<Entry(s, VInteger(1))>>) : s \in Strs}
    \cup {VTable(<<Entry(<<"a">>, VString(s))>>) : s \in Strs}
    \cup {VTable(<<Entry(<<"b">>, VArray(<<>>)), Entry(s, VString(s))>>) : s \in Strs \ {<<"b">>}}
RenderValues == Atoms \cup Arrays \cup Tables
RenderDocs == {VTable(<<Entry(<<"a">>, v)>>) : v \in RenderValues}

Start ==
    /\ preserve_order \in BOOLEAN
    /\ pc = "start"
    /\ path = <<>>
    /\ value = NoValue
    /\ err = <<>>
    /\ out = <<>>
    /\ panic = "none"

\* path resolution: any pattern against the nested documents
Init ==
    /\ doc \in PathDocs
    /\ pattern \in Patterns
    /\ Start

\* rendering: the value under key a of the document
InitRender ==
    /\ doc \in RenderDocs
    /\ pattern = <<"a">>
    /\ Start

(***************************************************************************)
(* doit, after the document is parsed: the pattern is parsed, the path is  *)
(* resolved, the value is printed.                                         *)
(***************************************************************************)
ParsePattern ==
    /\ pc = "start"
    /\ path' = from_str(pattern)
    /\ pc' = "parsed"
    /\ UNCHANGED <<doc, pattern, preserve_order, value, err, out, panic>>

\* an Err ends doit: main prints "No such key: {key}" and exits with status 1
Resolve ==
    /\ pc = "parsed"
    /\ LET r == get_path(doc, path)
       IN  /\ pc' = IF r.ok THEN "resolved" ELSE "failed"
           /\ value' = r.value
           /\ err' = r.key
    /\ UNCHANGED <<doc, pattern, preserve_order, path, out, panic>>

\* print!("{}", FmtBash { value })
PrintValue ==
    /\ pc = "resolved"
    /\ LET w == fmt(value, preserve_order)
       IN  /\ out' = w.text
           /\ panic' = w.panic
           /\ pc' = IF w.panic = "none" THEN "done" ELSE "panicked"
    /\ UNCHANGED <<doc, pattern, preserve_order, path, value, err>>

Next == ParsePattern \/ Resolve \/ PrintValue

Spec == Init /\ [][Next]_vars

SpecRender == InitRender /\ [][Next]_vars

(***************************************************************************)
(* Path resolution (checked under Spec)                                    *)
(***************************************************************************)
Front(p) == SubSeq(p, 1, Len(p) - 1)
Resolved == pc \in {"resolved", "done", "panicked"}
AfterResolve == pc \notin {"start", "parsed"}

\* the values the segments of p lead to from d, each segment being taken as
\* the key of an entry of the table reached by the segments before it
RECURSIVE Reach(_, _)
Reach(d, p) ==
    IF p = <<>> THEN {d}
    ELSE UNION {{t.tbl[i].value : i \in {j \in 1..Len(t.tbl) : t.tbl[j].key = p[Len(p)]}} :
                   t \in {w \in Reach(d, Front(p)) : w.tag = "Table"}}

\* C1: when every segment of the path, in order, is a key of the table
\* reached so far, get_path returns Ok with exactly the value the successive
\* table lookups lead to.
C1_ResolvesToSubValue ==
    (AfterResolve /\ Reach(doc, path) # {}) => (Resolved /\ Reach(doc, path) = {value})

C1_Witness ==
    /\ pc = "resolved"
    /\ pattern = <<"a", ".", "b", ".", "c">>
    /\ value = VInteger(1)

\* C2: when resolution fails, at whichever segment, the NoSuchKey error
\* carries the whole pattern string as it was given.
C2_ErrorCarriesWholePattern == pc = "failed" => err = pattern

C2_Witness ==
    /\ pc = "failed"
    /\ pattern = <<"a", ".", "b", ".", "c">>
    /\ doc = VTable(<<Entry(<<"a">>, VTable(<<Entry(<<"b">>, VTable(<<>>))>>))>>)
    /\ err = <<"a", ".", "b", ".", "c">>

\* C9: a segment applied to a value that is not a Table (an Array or a
\* scalar) makes get_path fail, also when the segment is "0" and the value a
\* non-empty array; a resolved path went through tables only, each segment
\* being the key of an entry.
C9_SegmentsAreKeysOnly ==
    AfterResolve =>
        /\ (\E k \in 0..Len(path) - 1 :
               \E v \in Reach(doc, SubSeq(path, 1, k)) : v.tag # "Table")
           => (pc = "failed" /\ value = NoValue)
        /\ Resolved =>
              \A k \in 0..Len(path) - 1 :
                  \A v \in Reach(doc, SubSeq(path, 1, k)) :
                      /\ v.tag = "Table"
                      /\ \E i \in 1..Len(v.tbl) : v.tbl[i].key = path[k + 1]

C9_Witness ==
    /\ pc = "failed"
    /\ pattern = <<"a", ".", "0">>
    /\ doc = VTable(<<Entry(<<"a">>, VArray(<<VInteger(1)>>))>>)

\* C10: the empty pattern is one empty segment, looked up as the key "" of
\* the root table: the entry's value if the root has that key, NoSuchKey with
\* key "" otherwise, and never the root itself.
C10_EmptyPatternIsEmptyKey ==
    pattern = <<>> =>
        /\ pc # "start" => path = << <<>> >>
        /\ AfterResolve =>
              IF \E i \in 1..Len(doc.tbl) : doc.tbl[i].key = <<>>
              THEN /\ Resolved
                   /\ \E i \in 1..Len(doc.tbl) :
                          doc.tbl[i].key = <<>> /\ value = doc.tbl[i].value
                   /\ value # doc
              ELSE pc = "failed" /\ err = <<>> /\ value = NoValue

C10_Witness ==
    /\ pattern = <<>>
    /\ pc = "resolved"
    /\ path = << <<>> >>
    /\ value = VTable(<<Entry(<<>>, VInteger(2))>>)

C10_WitnessMiss ==
    /\ pattern = <<>>
    /\ pc = "failed"
    /\ err = <<>>

(***************************************************************************)
(* Rendering (checked under SpecRender)                                    *)
(***************************************************************************)
Printed == pc \in {"done", "panicked"}
IsScalar(v) == v.tag \notin {"Array", "Table"}
AtomText(v) == write_atom(<<>>, v).text

\* the texts ts with one space between neighbours
RECURSIVE JoinSpaces(_)
JoinSpaces(ts) ==
    IF ts = <<>> THEN <<>>
    ELSE IF Len(ts) = 1 THEN ts[1]
    ELSE ts[1] \o <<" ">> \o JoinSpaces(Tail(ts))

\* C3: rendering is total: no value makes the renderer panic.
C3_RenderingTotal == pc # "panicked"

\* the unreachable!() arm of write_atom is never taken
UnreachableNeverReached == panic # "unreachable"

(***************************************************************************)
(* The words a POSIX shell reads from a text: unquoted blanks separate     *)
(* words, '...' is literal, in "..." a backslash escapes \ and ", outside  *)
(* quotes a backslash escapes the next character.                          *)
(***************************************************************************)
RECURSIVE ShellFrom(_, _, _, _, _, _)
ShellFrom(t, i, mode, cur, inword, words) ==
    IF i > Len(t)
    THEN [ok |-> mode = "plain", words |-> IF inword THEN Append(words, cur) ELSE words]
    ELSE LET c == t[i] IN
         CASE mode = "sq" ->
                IF c = "'" THEN ShellFrom(t, i + 1, "plain", cur, TRUE, words)
                ELSE ShellFrom(t, i + 1, "sq", Append(cur, c), TRUE, words)
           [] mode = "dq" ->
                IF c = "\"" THEN ShellFrom(t, i + 1, "plain", cur, TRUE, words)
                ELSE IF c = "\\" /\ i < Len(t) /\ t[i + 1] \in {"\\", "\""}
                THEN ShellFrom(t, i + 2, "dq", Append(cur, t[i + 1]), TRUE, words)
                ELSE ShellFrom(t, i + 1, "dq", Append(cur, c), TRUE, words)
           [] OTHER ->
                IF c \in {" ", "\n"}
                THEN ShellFrom(t, i + 1, "plain", <<>>, FALSE,
                               IF inword THEN Append(words, cur) ELSE words)
                ELSE IF c = "'" THEN ShellFrom(t, i + 1, "sq", cur, TRUE, words)
                ELSE IF c = "\"" THEN ShellFrom(t, i + 1, "dq", cur, TRUE, words)
                ELSE IF c = "\\" /\ i < Len(t)
                THEN ShellFrom(t, i + 2, "plain", Append(cur, t[i + 1]), TRUE, words)
                ELSE ShellFrom(t, i + 1, "plain", Append(cur, c), TRUE, words)

ShellWords(t) == ShellFrom(t, 1, "plain", <<>>, FALSE, <<>>)

QuoteCount(s) == Cardinality({i \in 1..Len(s) : s[i] \in {"'", "\""}})
HasSpace(s) == \E i \in 1..Len(s) : s[i] = " "

\* C4: the text rendered for a String with one embedded quote character or
\* a space is a shell literal of it: read by a shell it is one word, the
\* original string.
C4_ShellRoundTrip ==
    (Printed /\ value.tag = "String" /\ (QuoteCount(value.s) = 1 \/ HasSpace(value.s)))
        => (pc = "done" /\ ShellWords(out) = [ok |-> TRUE, words |-> <<value.s>>])

IdentChars == {"a", "n", "_", "1"}
IsIdent(s) == \A i \in 1..Len(s) : s[i] \in IdentChars
IsIdentString(v) == v.tag = "String" /\ IsIdent(v.s)

\* C5: a String made of letters, digits and underscore only renders as
\* exactly its characters: directly, as an array element, and as a table
\* value.
C5_IdentifierRendersAsIs ==
    Printed =>
        /\ IsIdentString(value) => (pc = "done" /\ out = value.s)
        /\ (value.tag = "Array" /\ \A i \in 1..Len(value.arr) : IsIdentString(value.arr[i]))
              => (pc = "done" /\ out = JoinSpaces([i \in 1..Len(value.arr) |-> value.arr[i].s]))
        /\ (value.tag = "Array" /\ Len(value.arr) = 2 /\ value.arr[1] = VInteger(1)
                /\ IsIdentString(value.arr[2]))
              => (pc = "done" /\ out = <<"1", " ">> \o value.arr[2].s)
        /\ (value.tag = "Table" /\ Len(value.tbl) = 1 /\ value.tbl[1].key = <<"a">>
                /\ IsIdentString(value.tbl[1].value))
              => (pc = "done" /\ out = <<"[", "a", "]", "=">> \o value.tbl[1].value.s)

C5_Witness ==
    /\ pc = "done"
    /\ value = VString(<<"a", "_", "1">>)
    /\ out = <<"a", "_", "1">>

\* the text of the scalar elements of arr, one space between neighbours
ArrayText(arr) ==
    LET scalars == SelectSeq(arr, IsScalar)
    IN  JoinSpaces([i \in 1..Len(scalars) |-> AtomText(scalars[i])])

\* C6: rendering an Array emits the texts of exactly its scalar elements, in
\* document order, with exactly one space between neighbours; composite
\* elements add nothing, there is no leading or trailing space and no
\* trailing newline; without scalar elements the output is empty.
C6_ArrayJoinsScalars ==
    (Printed /\ value.tag = "Array") =>
        /\ pc = "done"
        /\ out = ArrayText(value.arr)

\* what the code does for C6: an array whose rendering completes is printed
\* as the claim says
CompletedArrayJoinsScalars ==
    (pc = "done" /\ value.tag = "Array") => out = ArrayText(value.arr)

C6_Example ==
    /\ pc = "done"
    /\ value = VArray(<<VInteger(1), VTable(<<>>), VInteger(2)>>)
    /\ out = <<"1", " ", "2">>

\* the text of a table's entries ents, taken in that order: [key]=atom for
\* each entry with a scalar value, the key going through the String pipeline
TableText(ents) ==
    LET kept == SelectSeq(ents, LAMBDA e : IsScalar(e.value))
    IN  JoinSpaces([i \in 1..Len(kept) |->
            <<"[">> \o AtomText(VString(kept[i].key)) \o <<"]", "=">>
            \o AtomText(kept[i].value)])

Range(t) == {t[i] : i \in 1..Len(t)}

\* the entries of t arranged by strictly ascending key
Ascending(t) ==
    CHOOSE q \in [1..Len(t) -> Range(t)] :
        \A i, j \in 1..Len(t) : i < j => StrLess(q[i].key, q[j].key)

\* C7: rendering a Table emits [key]=atom for each entry with a scalar
\* value, in document insertion order, the key going through the String
\* pipeline, one space between neighbours, entries with a composite value
\* skipped.
C7_TableInInsertionOrder ==
    (Printed /\ value.tag = "Table") => (pc = "done" /\ out = TableText(value.tbl))

\* what the code does for C7: a table whose rendering completes is printed
\* entry by entry in the order the toml map iterates (insertion order in a
\* preserve_order build, ascending key order otherwise)
CompletedTableInMapOrder ==
    (pc = "done" /\ value.tag = "Table") =>
        out = TableText(IF preserve_order THEN value.tbl ELSE Ascending(value.tbl))

C7_SortedExample ==
    /\ pc = "done"
    /\ ~preserve_order
    /\ value = VTable(<<Entry(<<"b">>, VInteger(2)), Entry(<<"_", "1">>, VArray(<<VInteger(9)>>)),
                        Entry(<<"a">>, VInteger(1))>>)
    /\ out = <<"[", "a", "]", "=", "1", " ", "[", "b", "]", "=", "2">>

\* the example of the claim: {a: 1, b: [9]} renders as [a]=1
C7_Example ==
    /\ pc = "done"
    /\ value = VTable(<<Entry(<<"a">>, VInteger(1)), Entry(<<"b">>, VArray(<<VInteger(9)>>))>>)
    /\ out = <<"[", "a", "]", "=", "1">>

NewlineCount(t) == Cardinality({i \in 1..Len(t) : t[i] = "\n"})

\* the newlines that the content of a scalar decodes to: none but in a String
ContentNewlines(v) ==
    IF v.tag = "String" /\ unescape(v.s).ok THEN NewlineCount(unescape(v.s).s) ELSE 0

RECURSIVE SumNewlines(_)
SumNewlines(vs) == IF vs = <<>> THEN 0 ELSE ContentNewlines(Head(vs)) + SumNewlines(Tail(vs))

\* the number a decimal text denotes
DigitValue(c) == CHOOSE d \in 0..9 : Digit(d) = c
RECURSIVE DecValue(_)
DecValue(t) == IF t = <<>> THEN 0 ELSE DecValue(Front(t)) * 10 + DigitValue(t[Len(t)])
SignedValue(t) == IF t # <<>> /\ t[1] = "-" THEN 0 - DecValue(Tail(t)) ELSE DecValue(t)
IsDecimal(t) ==
    /\ t # <<>>
    /\ \A i \in 1..Len(t) : t[i] \in {Digit(d) : d \in 0..9} \/ (i = 1 /\ t[i] = "-" /\ Len(t) > 1)

C8_WitnessElement ==
    /\ pc = "done"
    /\ value = VArray(<<VInteger(2)>>)
    /\ out = <<"2">>

====
